---- MODULE Spec2Model ----
(***************************************************************************)
(* Retrograde-period extraction of heydocbrown/earth-retrograde.           *)
(*                                                                         *)
(* The programs modelled are the two chunked calculators                   *)
(*   RetrogradeFinder.find_retrograde_periods       (retrograde_calculator) *)
(*   EarthRetrogradeFinder.find_earth_retrograde_periods (..._1950_2050)    *)
(* the single-pass extractions of generate_test_data.main and of the two   *)
(* functions of test_mercury_retrograde, and the output dictionaries the   *)
(* generators build from the extracted periods.                            *)
(*                                                                         *)
(* Longitudes are whole degrees in [0, 360).  A sample's timestamp is its  *)
(* day number (the Julian date counted from the first day of the range),   *)
(* one sample per day.  Python's 0-based indices are kept: At(s, i) reads  *)
(* s[i].  The ISO date strings 'start' and 'end' of a period are derived   *)
(* from the same two Time objects as 'start_jd' and 'end_jd' and are not   *)
(* carried in the model's period records.                                  *)
(***************************************************************************)
EXTENDS Integers, Sequences, FiniteSets, TLC

VARIABLES
    prog,           \* the program (scan) that is running
    mode,           \* "single": one pass; "split": two windows; "chunks": the chunk loop;
                    \* "rerun": repeated passes; "output": a generator's entries;
                    \* "ephemeris", "sample", "loop": parts of the chunk loop
    longitudes,     \* the sampled ecliptic longitudes of the whole series / range
    split,          \* number of samples in the first window (mode "split")
    pc,             \* position of the program
    diffs,          \* np.diff(longitudes) after the in-place wraparound correction
    retrograde,     \* diffs < 0
    in_retrograde,  \* scan state: a retrograde run is open
    start_idx,      \* scan state: index of the first sample of the open run, or None
    periods,        \* the list of emitted periods
    chunk_start,    \* loop variable of the chunk loop
    windows,        \* history: the [first, last] day of every times array built so far
    returned,       \* history: what every completed run of a scan returned and read
    results,        \* results['planets'] of a generator: body name -> entry
    body,           \* number of bodies the generator's loop has taken from its dict
    eph,            \* the ephemeris get_ephemeris_and_earth selected for the chunk
    available,      \* the ephemerides that hold the body's key
    log,            \* history: how every chunk of the loop ended
    num_days,       \* number of samples of the chunk's times array
    loadable,       \* the asteroid ephemeris files that load() can load
    asteroid_eph,   \* self.asteroid_eph: the file loaded, or None
    mercury_retrogrades, \* the validation rows: reference periods
    matches,        \* validation tally
    mismatches      \* validation tally

testVars == << loadable, asteroid_eph, mercury_retrogrades, matches, mismatches >>

genVars == << results, body, eph, available, log, num_days, testVars >>

auxVars == << returned, genVars >>

vars == << prog, mode, longitudes, split, pc, diffs, retrograde,
           in_retrograde, start_idx, periods, chunk_start, windows, auxVars >>

---------------------------------------------------------------------------
(* Bounds of the model *)

\* longest sample series of the single-pass and two-window scans
MaxLen == 5
\* longest drawn series, and number of runs, where a scan is run repeatedly
RerunLen == 3
MaxRuns == 2
\* bodies taken from the dict of bodies, and longest series of one body, where
\* the output of a generator is built
NumBodies == 2
OutLen == 3
\* a chunk window spans MinSpan .. MinSpan + SpanChoices days where its times
\* array is built (January 1 to December 31 of one year is 364 days)
MinSpan == 364
SpanChoices == 60
\* the chunk loop with its skip and exception paths: first year, number of
\* chunks and years per chunk (one sample per year)
LoopStartYear == 1547
LoopChunks == 2
LoopChunkYears == 2
\* the validation test: most rows of the reference file
MaxRows == 11
\* the calendar of the chunk loop, scaled: years are counted from START_YEAR
START_YEAR == 0
\* END_YEAR - START_YEAR, scaled
YearSpan == 2
\* chunk_years, scaled
chunk_years == 1
\* samples (days) per calendar year, scaled
DaysPerYear == 5

END_YEAR == START_YEAR + YearSpan

(* Program constants *)
RF_START_YEAR == -10000
RF_END_YEAR == 10000
ERF_START_YEAR == 1950
ERF_END_YEAR == 2050
GTD_START_YEAR == 2024
GTD_END_YEAR == 2024
RF_chunk_years == 100
DE440_START == 1550
DE440_END == 2650
\* the factor 365.25 as the fraction JulianYearNum / JulianYearDen
\* test_earth_retrograde_from_mercury: rows tested, days checked around a
\* period, days within which a match is close
TestedLimit == 10
CheckMargin == 5
CloseDays == 2
JulianYearNum == 1461
JulianYearDen == 4
FullCircle == 360
HalfCircle == 180
\* Python's None for start_idx (indices are >= 0)
None == -1

---------------------------------------------------------------------------
(* Python / numpy helpers *)

At(s, i) == s[i + 1]

Min(a, b) == IF a <= b THEN a ELSE b

\* np.diff(a, prepend=FullCircle): keeps the length of a
np_diff_Prepend(a) ==
    [i \in 1..Len(a) |-> a[i] - (IF i = 1 THEN FullCircle ELSE a[i - 1])]

\* np.diff
np_diff(a) == [i \in 1..(Len(a) - 1) |-> a[i + 1] - a[i]]

\* the two in-place corrections, applied one after the other to one element
Wraparound_NoCorrection(d) == d

Wraparound(d) ==
    LET d1 == IF d > HalfCircle THEN d - FullCircle ELSE d
    IN  IF d1 < -HalfCircle THEN d1 + FullCircle ELSE d1

Negative_NonStrict(d) == d <= 0

\* diffs < 0, one element
Negative(d) == d < 0

normalized_diffs(ecliptic_longitudes) ==
    LET d == np_diff(ecliptic_longitudes)
    IN  [i \in 1..Len(d) |-> Wraparound(d[i])]

is_retrograde(ecliptic_longitudes) ==
    LET d == normalized_diffs(ecliptic_longitudes)
    IN  [i \in 1..Len(d) |-> Negative(d[i])]

is_earth_retrograde(ecliptic_longitudes) ==
    LET d == normalized_diffs(ecliptic_longitudes)
    IN  [i \in 1..Len(d) |-> Negative(d[i])]

\* generate_test_data and test_calculation_method classify inline
inline_retrograde(lon_degrees) ==
    LET d == normalized_diffs(lon_degrees)
    IN  [i \in 1..Len(d) |-> Negative(d[i])]

Finders == {"RetrogradeFinder", "EarthRetrogradeFinder"}
SinglePassProgs == {"generate_test_data", "test_calculation_method"}
MercuryTest == "test_earth_retrograde_from_mercury"
Progs == Finders \cup SinglePassProgs \cup {MercuryTest}

Classify(p, lons) ==
    CASE p = "RetrogradeFinder"      -> is_retrograde(lons)
      [] p = "EarthRetrogradeFinder" -> is_earth_retrograde(lons)
      [] OTHER                       -> inline_retrograde(lons)

---------------------------------------------------------------------------
(* The scan *)

NewPeriod_EndAtStart(times, s, i) ==
    [start_jd |-> At(times, s), end_jd |-> At(times, s)]

NewPeriod_EndAtLastRetro(times, s, i) ==
    [start_jd |-> At(times, s), end_jd |-> At(times, i - 1)]

\* the dict appended for the run that started at sample s and ended at sample i
NewPeriod(times, s, i) ==
    [start_jd |-> At(times, s), end_jd |-> At(times, i)]

ScanState(in_r, s, ps) == [in_retrograde |-> in_r, start_idx |-> s, periods |-> ps]

\* periods.insert(0, ...) in place of periods.append(...)
FinderStep_Prepend(st, i, is_retro, times) ==
    IF is_retro /\ ~st.in_retrograde
    THEN ScanState(TRUE, i, st.periods)
    ELSE IF ~is_retro /\ st.in_retrograde
         THEN ScanState(FALSE, st.start_idx,
                        IF st.start_idx # None
                        THEN <<NewPeriod(times, st.start_idx, i)>> \o st.periods
                        ELSE st.periods)
         ELSE st

\* body of `for i, is_retro in enumerate(retrograde)` in the two finders
FinderStep(st, i, is_retro, times) ==
    IF is_retro /\ ~st.in_retrograde
    THEN ScanState(TRUE, i, st.periods)
    ELSE IF ~is_retro /\ st.in_retrograde
         THEN ScanState(FALSE, st.start_idx,
                        IF st.start_idx # None
                        THEN Append(st.periods, NewPeriod(times, st.start_idx, i))
                        ELSE st.periods)
         ELSE st

\* body of the same loop in generate_test_data and test_calculation_method
SinglePassStep(st, i, is_retro, times) ==
    IF is_retro /\ ~st.in_retrograde
    THEN ScanState(TRUE, i, st.periods)
    ELSE IF ~is_retro /\ st.in_retrograde /\ st.start_idx # None
         THEN ScanState(FALSE, st.start_idx,
                        Append(st.periods, NewPeriod(times, st.start_idx, i)))
         ELSE st

\* `if retro_start:` - None and 0 are falsy, a date never is
Truthy(v) == v # None /\ v # 0

\* retro_start = i in place of dates[i]
MercuryStep_StartIndex(st, i, is_retro, dates) ==
    IF is_retro /\ ~st.in_retrograde
    THEN ScanState(TRUE, i, st.periods)
    ELSE IF ~is_retro /\ st.in_retrograde
         THEN ScanState(FALSE, st.start_idx,
                        IF Truthy(st.start_idx)
                        THEN Append(st.periods, NewPeriod(dates, st.start_idx, i))
                        ELSE st.periods)
         ELSE st

\* body of the loop in test_earth_retrograde_from_mercury: the field start_idx
\* holds retro_start, the date dates[i] itself
MercuryStep(st, i, is_retro, dates) ==
    IF is_retro /\ ~st.in_retrograde
    THEN ScanState(TRUE, At(dates, i), st.periods)
    ELSE IF ~is_retro /\ st.in_retrograde
         THEN ScanState(FALSE, st.start_idx,
                        IF Truthy(st.start_idx)
                        THEN Append(st.periods, [start_jd |-> st.start_idx,
                                                 end_jd |-> At(dates, i)])
                        ELSE st.periods)
         ELSE st

Step(p, st, i, is_retro, times) ==
    IF p \in Finders THEN FinderStep(st, i, is_retro, times)
    ELSE IF p = MercuryTest THEN MercuryStep(st, i, is_retro, times)
    ELSE SinglePassStep(st, i, is_retro, times)

RECURSIVE Enumerate(_, _, _, _, _)
\* the for loop from index i on
Enumerate(p, flags, times, i, st) ==
    IF i >= Len(flags) THEN st
    ELSE Enumerate(p, flags, times, i + 1, Step(p, st, i, At(flags, i), times))

AfterLoop_DropOpenRun(p, st, times) == st

\* what follows the loop: generate_test_data closes an open run at times[-1];
\* RetrogradeFinder passes; the other programs have nothing
AfterLoop(p, st, times) ==
    IF p = "generate_test_data" /\ st.in_retrograde /\ st.start_idx # None
    THEN ScanState(st.in_retrograde, st.start_idx,
                   Append(st.periods, NewPeriod(times, st.start_idx, Len(times) - 1)))
    ELSE st

\* the locals a leftover of an earlier call would be
FreshScanState_Leftover == ScanState(in_retrograde, start_idx, periods)

\* periods = []; in_retro = False; start_idx = None
FreshScanState == ScanState(FALSE, None, <<>>)

\* the times array of the days first..last
Days(first, last) == [i \in 1..(last - first + 1) |-> first + i - 1]

\* the scan of program p run on a whole series, its closing statements included
ScanOf(p, lons) ==
    LET times == Days(1, Len(lons))
        st == Enumerate(p, Classify(p, lons), times, 0, ScanState(FALSE, None, <<>>))
    IN  AfterLoop(p, st, times).periods

\* one window of a finder: classify, then scan with fresh scan state, appending to ps
WindowScan(p, lons, times, ps) ==
    Enumerate(p, Classify(p, lons), times, 0, ScanState(FALSE, None, ps))

---------------------------------------------------------------------------
(* Inputs *)

\* longitudes a quarter circle apart: every delta of the two wraparound
\* branches, of the plain branches and of exactly +-180 and 0 occurs
Angles == {0, 90, 180, 270}

SeriesOfLength(n) == [1..n -> Angles]

SmallSeries == UNION {SeriesOfLength(n) : n \in 0..MaxLen}

\* the sample series of the documented test cases
WrapExample     == <<350, 355, 2, 8>>
RunExample      == <<10, 12, 11, 9, 8, 10, 13>>
ConstantExample == <<5, 5, 5>>
OpenRunExample  == <<10, 8, 6>>
ExampleSeries == {WrapExample, RunExample, ConstantExample, OpenRunExample}

RerunSeries == UNION {SeriesOfLength(n) : n \in 0..RerunLen} \cup ExampleSeries

Degrees == 0..(FullCircle - 1)
PairSeries == {<<a, b>> : a \in Degrees, b \in Degrees}

\* daily motion of the chunk loop's series, in degrees modulo 360: forward or backward
Motions == {90, 270}

\* the calendar of the chunk loop: day numbers of 1 January and 31 December of year y
JanFirst(y) == (y - START_YEAR) * DaysPerYear + 1
DecLast(y)  == (y - START_YEAR + 1) * DaysPerYear
TotalDays   == DecLast(END_YEAR)

RECURSIVE Positions(_, _, _)
\* the longitudes of the days from a start angle and the daily motions
Positions(a, motion, n) ==
    IF n = 0 THEN <<>>
    ELSE IF n = 1 THEN <<a>>
    ELSE LET prev == Positions(a, motion, n - 1)
         IN  Append(prev, (prev[n - 1] + motion[n - 1]) % FullCircle)

\* the longitudes of a window: every pattern of forward and backward steps
LoopSeries(n) == {Positions(0, m, n) : m \in [1..(n - 1) -> Motions]}

RangeSeries(n) ==
    {Positions(a, m, n) : a \in Angles, m \in [1..(n - 1) -> Motions]}

---------------------------------------------------------------------------
(* Single pass over one series: generate_test_data.main, test_calculation_method,
   and one window of a finder *)

\* Python's None where the other values are strings
NoEphemeris == "None"

\* nothing of the constructor and of the validation test
NoTest ==
    /\ loadable = {} /\ asteroid_eph = NoEphemeris
    /\ mercury_retrogrades = <<>> /\ matches = 0 /\ mismatches = 0

Idle ==
    /\ diffs = <<>> /\ retrograde = <<>>
    /\ in_retrograde = FALSE /\ start_idx = None
    /\ periods = <<>> /\ chunk_start = START_YEAR /\ windows = <<>>
    /\ returned = <<>> /\ results = <<>> /\ body = 0
    /\ eph = "none" /\ available = {} /\ log = <<>> /\ num_days = 0
    /\ NoTest

InitScan ==
    /\ prog \in Progs
    /\ longitudes \in SmallSeries \cup ExampleSeries
    /\ mode \in (IF prog \in Finders THEN {"single", "split"} ELSE {"single"})
    /\ split \in (IF mode = "split" THEN 0..Len(longitudes) ELSE {0})
    /\ pc = "start"
    /\ Idle

InitNorm ==
    /\ prog \in Finders
    /\ longitudes \in PairSeries \cup {WrapExample}
    /\ mode = "single"
    /\ split = 0
    /\ pc = "start"
    /\ Idle

\* a program run several times in one process, on the same or on another series
InitRerun ==
    /\ prog \in Progs
    /\ longitudes \in RerunSeries
    /\ mode = "rerun"
    /\ split = 0
    /\ pc = "start"
    /\ Idle

AllTimes == Days(1, Len(longitudes))

\* diffs = np.diff(longitudes); the wraparound correction; retrograde = diffs < 0
ClassifySeries ==
    /\ pc = "start" /\ mode \in {"single", "rerun"}
    /\ diffs' = normalized_diffs(longitudes)
    /\ retrograde' = Classify(prog, longitudes)
    /\ pc' = "classified"
    /\ UNCHANGED << prog, mode, longitudes, split, in_retrograde, start_idx,
                    periods, chunk_start, windows, auxVars >>

\* periods = []; in_retro = False; start_idx = None; the for loop
ExtractPeriods ==
    /\ pc = "classified"
    /\ LET st == Enumerate(prog, retrograde, AllTimes, 0, FreshScanState)
       IN  /\ in_retrograde' = st.in_retrograde
           /\ start_idx' = st.start_idx
           /\ periods' = st.periods
    /\ pc' = "scanned"
    /\ UNCHANGED << prog, mode, longitudes, split, diffs, retrograde,
                    chunk_start, windows, auxVars >>

\* the statements after the loop
EndOfSeries ==
    /\ pc = "scanned"
    /\ LET st == AfterLoop(prog, ScanState(in_retrograde, start_idx, periods), AllTimes)
       IN  /\ in_retrograde' = st.in_retrograde
           /\ start_idx' = st.start_idx
           /\ periods' = st.periods
           /\ returned' = Append(returned, [longitudes |-> longitudes,
                                            periods |-> st.periods])
    /\ pc' = "done"
    /\ UNCHANGED << prog, mode, longitudes, split, diffs, retrograde,
                    chunk_start, windows, genVars >>

\* the program is called once more; nothing of the previous call is cleared
\* here, the call itself makes its assignments
RunAgain ==
    /\ mode = "rerun" /\ pc = "done" /\ Len(returned) < MaxRuns
    /\ longitudes' \in {longitudes} \cup ExampleSeries
    /\ pc' = "start"
    /\ UNCHANGED << prog, mode, split, diffs, retrograde, in_retrograde,
                    start_idx, periods, chunk_start, windows, auxVars >>

---------------------------------------------------------------------------
(* One series fed to a finder as two windows of zero overlap: the body of the
   chunk loop run on samples [0, split) and then on samples [split, n) *)

\* one iteration of the chunk loop on the days first..last
RunWindow(first, last) ==
    LET lons  == SubSeq(longitudes, first, last)
        times == Days(first, last)
        st    == WindowScan(prog, lons, times, periods)
    IN  /\ diffs' = normalized_diffs(lons)
        /\ retrograde' = Classify(prog, lons)
        /\ in_retrograde' = st.in_retrograde
        /\ start_idx' = st.start_idx
        /\ periods' = st.periods
        /\ windows' = Append(windows, [first |-> first, last |-> last])

FirstWindow ==
    /\ pc = "start" /\ mode = "split"
    /\ RunWindow(1, split)
    /\ pc' = "seam"
    /\ UNCHANGED << prog, mode, longitudes, split, chunk_start, auxVars >>

SecondWindow ==
    /\ pc = "seam"
    /\ RunWindow(split + 1, Len(longitudes))
    /\ pc' = "done"
    /\ UNCHANGED << prog, mode, longitudes, split, chunk_start, auxVars >>

---------------------------------------------------------------------------
(* The chunk loop of find_retrograde_periods / find_earth_retrograde_periods *)

InitChunks ==
    /\ prog \in Finders
    /\ longitudes \in RangeSeries(TotalDays)
    /\ mode = "chunks"
    /\ split = 0
    /\ pc = "loop"
    /\ Idle

chunk_end == Min(chunk_start + chunk_years, END_YEAR)

\* one iteration of `for chunk_start in range(START_YEAR, END_YEAR, chunk_years)`
ProcessChunk ==
    /\ pc = "loop" /\ chunk_start < END_YEAR
    /\ RunWindow(JanFirst(chunk_start), DecLast(chunk_end))
    /\ chunk_start' = chunk_start + chunk_years
    /\ UNCHANGED << prog, mode, longitudes, split, pc, auxVars >>

\* the range is exhausted: return periods
ReturnPeriods ==
    /\ pc = "loop" /\ chunk_start >= END_YEAR
    /\ pc' = "done"
    /\ UNCHANGED << prog, mode, longitudes, split, diffs, retrograde,
                    in_retrograde, start_idx, periods, chunk_start, windows, auxVars >>

---------------------------------------------------------------------------
(* The output of a generator: results['planets'], one entry per body *)

Generators == Finders \cup {"generate_test_data"}

\* the keys of PLANETS / OBSERVERS in the order of the dict
OBSERVERS == << "mercury", "venus", "mars", "jupiter", "saturn", "uranus",
               "neptune", "pluto", "chiron" >>

\* the bodies the loop takes: the first planets of the dict and its last key
BodyLoop == SubSeq(OBSERVERS, 1, NumBodies - 1) \o << OBSERVERS[Len(OBSERVERS)] >>

\* isinstance(observer_key, int)
IsIntKey(name) == name = "chiron"

StartYearOf(p) ==
    CASE p = "RetrogradeFinder"      -> RF_START_YEAR
      [] p = "EarthRetrogradeFinder" -> ERF_START_YEAR
      [] OTHER                       -> GTD_START_YEAR

EndYearOf(p) ==
    CASE p = "RetrogradeFinder"      -> RF_END_YEAR
      [] p = "EarthRetrogradeFinder" -> ERF_END_YEAR
      [] OTHER                       -> GTD_END_YEAR

\* a number of the output as a fraction; a / b of Python raises
\* ZeroDivisionError when b is 0, which is the fraction of denominator 0
Divide(a, b) == [num |-> a, den |-> b]
IntValue(n) == [num |-> n, den |-> 1]

\* len(periods) / (END_YEAR - START_YEAR) with no condition, in every generator
AveragePerYear_NoGuard(p, ps) == Divide(Len(ps), EndYearOf(p) - StartYearOf(p))

\* generate_test_data writing 0 for its year range of zero
AveragePerYear_ZeroRange(p, ps) ==
    IF p \in Finders
    THEN IF ps # <<>> THEN Divide(Len(ps), EndYearOf(p) - StartYearOf(p))
                      ELSE IntValue(0)
    ELSE IntValue(0)

\* the value written under 'average_per_year'
AveragePerYear(p, ps) ==
    IF p \in Finders
    THEN IF ps # <<>> THEN Divide(Len(ps), EndYearOf(p) - StartYearOf(p))
                      ELSE IntValue(0)
    ELSE IntValue(Len(ps))

Entry(p, ps) ==
    [periods |-> ps, count |-> Len(ps), average_per_year |-> AveragePerYear(p, ps)]

\* the entry of the except branch of generate_test_data
ErrorEntry == [periods |-> <<>>, count |-> 0, average_per_year |-> IntValue(0)]

\* results['planets'][name] = e
Put(d, name, e) ==
    [n \in DOMAIN d \cup {name} |-> IF n = name THEN e ELSE d[n]]

\* the series of one body: every pattern of forward and backward steps
OutputSeries == UNION {LoopSeries(n) : n \in 0..OutLen}

InitOutput ==
    /\ prog \in Generators
    /\ longitudes = <<>>
    /\ mode = "output"
    /\ split = 0
    /\ pc = "bodies"
    /\ Idle

scanVars == << split, diffs, retrograde, in_retrograde, start_idx, periods,
              chunk_start, windows, returned, eph, available, num_days, testVars >>

\* history: how the iteration for a body ended and what it did to results
BodyEntry(outcome, after) ==
    [body |-> BodyLoop[body + 1], outcome |-> outcome,
     before |-> results, after |-> after]

\* one iteration of the loop of calculate_all_retrogrades: the body's periods
\* are found and its entry is written
ProcessBody ==
    /\ mode = "output" /\ pc = "bodies" /\ prog \in Finders
    /\ body < Len(BodyLoop)
    /\ \E lons \in OutputSeries :
          LET after == Put(results, BodyLoop[body + 1], Entry(prog, ScanOf(prog, lons)))
          IN  /\ longitudes' = lons
              /\ results' = after
              /\ log' = Append(log, BodyEntry("written", after))
    /\ body' = body + 1
    /\ UNCHANGED << prog, mode, pc, scanVars >>

\* one iteration of the loop of generate_test_data.main that reaches the end
\* of its try block
ProcessObserver ==
    /\ mode = "output" /\ pc = "bodies" /\ prog = "generate_test_data"
    /\ body < Len(BodyLoop)
    /\ \E lons \in OutputSeries :
          LET after == Put(results, BodyLoop[body + 1], Entry(prog, ScanOf(prog, lons)))
          IN  /\ longitudes' = lons
              /\ results' = after
              /\ log' = Append(log, BodyEntry("written", after))
    /\ body' = body + 1
    /\ UNCHANGED << prog, mode, pc, scanVars >>

\* an exception inside the try block: the except branch writes the entry
ObserverFails ==
    /\ mode = "output" /\ pc = "bodies" /\ prog = "generate_test_data"
    /\ body < Len(BodyLoop)
    /\ LET after == Put(results, BodyLoop[body + 1], ErrorEntry)
       IN  /\ results' = after
           /\ log' = Append(log, BodyEntry("raised", after))
    /\ body' = body + 1
    /\ UNCHANGED << prog, mode, pc, longitudes, scanVars >>

\* an integer key that DE421 does not hold: continue
ObserverNotFound ==
    /\ mode = "output" /\ pc = "bodies" /\ prog = "generate_test_data"
    /\ body < Len(BodyLoop)
    /\ IsIntKey(BodyLoop[body + 1])
    /\ log' = Append(log, BodyEntry("not_found", results))
    /\ body' = body + 1
    /\ UNCHANGED << prog, mode, pc, longitudes, results, scanVars >>

\* the loop is over: results is returned / dumped
SaveOutput ==
    /\ mode = "output" /\ pc = "bodies"
    /\ body >= Len(BodyLoop)
    /\ pc' = "saved"
    /\ UNCHANGED << prog, mode, longitudes, results, body, log, scanVars >>

---------------------------------------------------------------------------
(* The ephemeris RetrogradeFinder selects for each chunk of its real range *)

get_ephemeris(year) ==
    IF DE440_START <= year /\ year <= DE440_END THEN "de440" ELSE "de441"

mid_year(cs, ce) == (cs + ce) \div 2

InitEph ==
    /\ prog = "RetrogradeFinder"
    /\ longitudes = <<>>
    /\ mode = "ephemeris"
    /\ split = 0
    /\ pc = "loop"
    /\ diffs = <<>> /\ retrograde = <<>>
    /\ in_retrograde = FALSE /\ start_idx = None
    /\ periods = <<>> /\ chunk_start = RF_START_YEAR /\ windows = <<>>
    /\ returned = <<>> /\ results = <<>> /\ body = 0
    /\ eph = "none" /\ available = {} /\ log = <<>> /\ num_days = 0
    /\ NoTest

\* head of one iteration of the chunk loop, up to the selection of eph, earth
SelectEphemeris ==
    /\ mode = "ephemeris" /\ pc = "loop" /\ chunk_start < RF_END_YEAR
    /\ LET ce == Min(chunk_start + RF_chunk_years, RF_END_YEAR)
           e  == get_ephemeris(mid_year(chunk_start, ce))
       IN  /\ eph' = e
           /\ log' = Append(log, [chunk_start |-> chunk_start, chunk_end |-> ce,
                                  eph |-> e])
    /\ chunk_start' = chunk_start + RF_chunk_years
    /\ UNCHANGED << prog, mode, longitudes, split, pc, diffs, retrograde,
                    in_retrograde, start_idx, periods, windows, returned,
                    results, body, available, num_days, testVars >>

RangeExhausted ==
    /\ mode = "ephemeris" /\ pc = "loop" /\ chunk_start >= RF_END_YEAR
    /\ pc' = "done"
    /\ UNCHANGED << prog, mode, longitudes, split, diffs, retrograde,
                    in_retrograde, start_idx, periods, chunk_start, windows, auxVars >>

---------------------------------------------------------------------------
(* The times array of one chunk: np.linspace(start_date.tt, end_date.tt,
   num_days), where .tt counts days *)

\* end_date.tt - start_date.tt of the window, both dates at the same hour
SpanOf(w) == w.last - w.first

\* int((end_date.tt - start_date.tt) * 365.25) in RetrogradeFinder,
\* int((end_date.tt - start_date.tt)) in EarthRetrogradeFinder
NumDays(p, span) ==
    IF p = "RetrogradeFinder" THEN (span * JulianYearNum) \div JulianYearDen
                              ELSE span

\* the step of np.linspace(a, a + span, n), in days
LinspaceStep(span, n) == Divide(span, n - 1)

InitSample ==
    /\ prog \in Finders
    /\ longitudes = <<>>
    /\ mode = "sample"
    /\ split = 0
    /\ pc = "window"
    /\ diffs = <<>> /\ retrograde = <<>>
    /\ in_retrograde = FALSE /\ start_idx = None
    /\ periods = <<>> /\ chunk_start = START_YEAR
    /\ \E span \in MinSpan..(MinSpan + SpanChoices) :
          windows = << [first |-> 1, last |-> 1 + span] >>
    /\ returned = <<>> /\ results = <<>> /\ body = 0
    /\ eph = "none" /\ available = {} /\ log = <<>> /\ num_days = 0
    /\ NoTest

\* num_days = int(...); times = ts.tt_jd(np.linspace(...))
BuildTimes ==
    /\ mode = "sample" /\ pc = "window"
    /\ num_days' = NumDays(prog, SpanOf(windows[1]))
    /\ pc' = "sampled"
    /\ UNCHANGED << prog, mode, longitudes, split, diffs, retrograde,
                    in_retrograde, start_idx, periods, chunk_start, windows,
                    returned, results, body, eph, available, log, testVars >>

---------------------------------------------------------------------------
(* The chunk loop of a finder for one body, with the paths that leave an
   iteration early.  A window has one sample per year chunk_start..chunk_end. *)

LoopEndYear == LoopStartYear + LoopChunks * LoopChunkYears

loop_chunk_end == Min(chunk_start + LoopChunkYears, LoopEndYear)

Ephemerides(p) == IF p = "RetrogradeFinder" THEN {"de440", "de441"} ELSE {"de421"}

\* eph, earth = self.get_ephemeris_and_earth(mid_year); self.eph in the other finder
SelectedEphemeris(p, cs, ce) ==
    IF p = "RetrogradeFinder" THEN get_ephemeris(mid_year(cs, ce)) ELSE "de421"

\* other_eph = self.eph_441 if eph == self.eph_440 else self.eph_440
other_eph(e) == IF e = "de440" THEN "de441" ELSE "de440"

\* the selected ephemeris only, no second lookup
Lookup_NoFallback(p, selected, avail) ==
    IF selected \in avail THEN selected ELSE "none"

\* the ephemeris the body object is taken from, "none" when every lookup
\* raised KeyError
Lookup(p, selected, avail) ==
    IF selected \in avail THEN selected
    ELSE IF p = "RetrogradeFinder" /\ other_eph(selected) \in avail
         THEN other_eph(selected)
         ELSE "none"

\* periods = [] executed by the except branch
PeriodsAfterException_Cleared(before, partial) == <<>>

\* periods when the except branch is entered: what the iteration had appended
\* stays appended
PeriodsAfterException(before, partial) == partial

InitLoop ==
    /\ prog \in Finders
    /\ longitudes = <<>>
    /\ mode = "loop"
    /\ split = 0
    /\ pc = "loop"
    /\ diffs = <<>> /\ retrograde = <<>>
    /\ in_retrograde = FALSE /\ start_idx = None
    /\ periods = <<>> /\ chunk_start = LoopStartYear /\ windows = <<>>
    /\ returned = <<>> /\ results = <<>> /\ body = 0
    /\ eph = "none" /\ available \in SUBSET Ephemerides(prog)
    /\ log = <<>> /\ num_days = 0
    /\ NoTest

LogEntry(selected, used, outcome, after) ==
    [chunk_start |-> chunk_start, eph |-> selected, used |-> used,
     outcome |-> outcome, before |-> periods, after |-> after]

loopFrame == << prog, mode, longitudes, split, pc, diffs, retrograde, windows,
               returned, results, body, available, num_days, testVars >>

\* an iteration that runs to the end of its try block
ChunkScanned ==
    /\ mode = "loop" /\ pc = "loop" /\ chunk_start < LoopEndYear
    /\ LET selected == SelectedEphemeris(prog, chunk_start, loop_chunk_end)
           used == Lookup(prog, selected, available)
           times == Days(chunk_start, loop_chunk_end)
       IN  /\ used # "none"
           /\ \E lons \in LoopSeries(Len(times)) :
                 LET st == WindowScan(prog, lons, times, periods)
                 IN  /\ in_retrograde' = st.in_retrograde
                     /\ start_idx' = st.start_idx
                     /\ periods' = st.periods
                     /\ log' = Append(log, LogEntry(selected, used, "scanned", st.periods))
           /\ eph' = selected
    /\ chunk_start' = chunk_start + LoopChunkYears
    /\ UNCHANGED loopFrame

\* the body's key is in no ephemeris that is tried: continue
ChunkSkipped ==
    /\ mode = "loop" /\ pc = "loop" /\ chunk_start < LoopEndYear
    /\ LET selected == SelectedEphemeris(prog, chunk_start, loop_chunk_end)
       IN  /\ Lookup(prog, selected, available) = "none"
           /\ log' = Append(log, LogEntry(selected, "none", "skipped", periods))
           /\ eph' = selected
    /\ chunk_start' = chunk_start + LoopChunkYears
    /\ UNCHANGED << in_retrograde, start_idx, periods >>
    /\ UNCHANGED loopFrame

\* an exception inside the try block, after j steps of the scan (j = 0: while
\* the positions are computed): except Exception ... continue
ChunkRaised ==
    /\ mode = "loop" /\ pc = "loop" /\ chunk_start < LoopEndYear
    /\ LET selected == SelectedEphemeris(prog, chunk_start, loop_chunk_end)
           used == Lookup(prog, selected, available)
           times == Days(chunk_start, loop_chunk_end)
       IN  /\ used # "none"
           /\ \E lons \in LoopSeries(Len(times)) :
               \E j \in 0..(Len(times) - 1) :
                 LET flags == SubSeq(Classify(prog, lons), 1, j)
                     st == Enumerate(prog, flags, times, 0,
                                     ScanState(FALSE, None, periods))
                     after == PeriodsAfterException(periods, st.periods)
                 IN  /\ in_retrograde' = st.in_retrograde
                     /\ start_idx' = st.start_idx
                     /\ periods' = after
                     /\ log' = Append(log, LogEntry(selected, used, "raised", after))
           /\ eph' = selected
    /\ chunk_start' = chunk_start + LoopChunkYears
    /\ UNCHANGED loopFrame

\* the range is exhausted: return periods, which the caller puts in the entry
LoopReturns ==
    /\ mode = "loop" /\ pc = "loop" /\ chunk_start >= LoopEndYear
    /\ results' = Put(results, BodyLoop[1], Entry(prog, periods))
    /\ pc' = "done"
    /\ UNCHANGED << prog, mode, longitudes, split, diffs, retrograde,
                    in_retrograde, start_idx, periods, chunk_start, windows,
                    returned, body, eph, available, log, num_days, testVars >>

---------------------------------------------------------------------------
(* The validation tally of test_earth_retrograde_from_mercury.  Dates are day
   numbers counted from check_start, the first date of the row's window. *)

Abs(x) == IF x < 0 THEN -x ELSE x

\* lengths in days of the reference periods
RefLens == {1, 2}

\* a row of the reference file whose period is len days long
ReferencePeriod(len) == [start |-> 1 + CheckMargin, end |-> 1 + CheckMargin + len]

\* num_days = (check_end - check_start).days + 1
TallyNumDays(period) == (period.end + CheckMargin) - (period.start - CheckMargin) + 1

\* earth_retro_periods over the dates of the row's window
ExtractedFrom(lons) ==
    LET dates == Days(1, Len(lons))
    IN  Enumerate(MercuryTest, Classify(MercuryTest, lons), dates, 0,
                  ScanState(FALSE, None, <<>>)).periods

\* every list the scan can extract in the window of a period of len days
ExtractedLists ==
    [len \in RefLens |->
        {ExtractedFrom(lons) : lons \in LoopSeries(TallyNumDays(ReferencePeriod(len)))}]

IsExact(earth_period, period) ==
    earth_period.start_jd = period.start /\ earth_period.end_jd = period.end

IsClose(earth_period, period) ==
    /\ Abs(earth_period.start_jd - period.start) <= CloseDays
    /\ Abs(earth_period.end_jd - period.end) <= CloseDays

Verdict(exact, close) == [exact_match |-> exact, close_match |-> close]

RECURSIVE MatchLoop_BreakOnClose(_, _, _, _)
\* the loop with a break in the close-match branch too
MatchLoop_BreakOnClose(found, period, k, v) ==
    IF k > Len(found) THEN v
    ELSE IF IsExact(found[k], period) THEN Verdict(TRUE, v.close_match)
    ELSE IF IsClose(found[k], period) THEN Verdict(v.exact_match, TRUE)
    ELSE MatchLoop_BreakOnClose(found, period, k + 1, v)

RECURSIVE MatchLoop(_, _, _, _)
\* for earth_period in earth_retro_periods, from its k-th element on
MatchLoop(found, period, k, v) ==
    IF k > Len(found) THEN v
    ELSE IF IsExact(found[k], period) THEN Verdict(TRUE, v.close_match)
    ELSE IF IsClose(found[k], period)
         THEN MatchLoop(found, period, k + 1, Verdict(v.exact_match, TRUE))
         ELSE MatchLoop(found, period, k + 1, v)

\* mercury_retrogrades[:10]
Tested(rows) == SubSeq(rows, 1, Min(TestedLimit, Len(rows)))

InitTally ==
    /\ prog = MercuryTest
    /\ longitudes = <<>>
    /\ mode = "tally"
    /\ split = 0
    /\ pc = "rows"
    /\ diffs = <<>> /\ retrograde = <<>>
    /\ in_retrograde = FALSE /\ start_idx = None
    /\ periods = <<>> /\ chunk_start = START_YEAR /\ windows = <<>>
    /\ returned = <<>> /\ results = <<>> /\ body = 0
    /\ eph = "none" /\ available = {} /\ log = <<>> /\ num_days = 0
    /\ loadable = {} /\ asteroid_eph = NoEphemeris
    /\ \E n \in 0..MaxRows : \E len \in RefLens :
          mercury_retrogrades = [k \in 1..n |-> ReferencePeriod(len)]
    /\ matches = 0 /\ mismatches = 0

tallyFrame == << prog, mode, longitudes, split, diffs, retrograde, in_retrograde,
                start_idx, periods, chunk_start, windows, returned, results,
                eph, available, num_days, loadable, asteroid_eph,
                mercury_retrogrades >>

\* one iteration of `for period in mercury_retrogrades[:10]`; body counts the
\* rows taken; log holds what the row's extracted list contained and how the
\* row was counted
TestPeriod ==
    /\ mode = "tally" /\ pc = "rows" /\ body < Len(Tested(mercury_retrogrades))
    /\ LET period == Tested(mercury_retrogrades)[body + 1]
       IN  \E found \in ExtractedLists[period.end - period.start] :
              LET v == MatchLoop(found, period, 1, Verdict(FALSE, FALSE))
              IN  /\ matches' = IF v.exact_match THEN matches + 1 ELSE matches
                  /\ mismatches' = IF v.exact_match THEN mismatches ELSE mismatches + 1
                  /\ log' = << [exact |-> \E k \in DOMAIN found : IsExact(found[k], period),
                                close_first |-> /\ found # <<>>
                                                /\ IsClose(found[1], period)
                                                /\ ~IsExact(found[1], period),
                                matches |-> matches, mismatches |-> mismatches] >>
    /\ body' = body + 1
    /\ pc' = pc
    /\ UNCHANGED tallyFrame

\* the rows are exhausted: the results are printed
PrintTally ==
    /\ mode = "tally" /\ pc = "rows" /\ body >= Len(Tested(mercury_retrogrades))
    /\ pc' = "done"
    /\ UNCHANGED << body, log, matches, mismatches >>
    /\ UNCHANGED tallyFrame

---------------------------------------------------------------------------
(* A whole run of a finder: the constructor, then for every body one call of
   find_retrograde_periods / find_earth_retrograde_periods and its entry *)

asteroid_files_to_try == << "sb441-n16.bsp", "sb441.bsp", "asteroids.bsp" >>

RECURSIVE FirstLoaded_NoBreak(_, _, _, _)
\* the loop without its break: every file that loads replaces the one before
FirstLoaded_NoBreak(files, k, can, kept) ==
    IF k > Len(files) THEN kept
    ELSE FirstLoaded_NoBreak(files, k + 1, can,
                             IF files[k] \in can THEN files[k] ELSE kept)

RECURSIVE FirstLoaded(_, _, _, _)
\* for ast_file in asteroid_files_to_try, from the k-th file on: load() either
\* returns (assign, break) or raises (continue)
FirstLoaded(files, k, can, kept) ==
    IF k > Len(files) THEN kept
    ELSE IF files[k] \in can THEN files[k]
    ELSE FirstLoaded(files, k + 1, can, kept)

\* the periods list of a call that kept the list of the call before
CallPeriods_Leftover == periods

\* periods = [] at the head of find_retrograde_periods
CallPeriods == <<>>

\* the ephemeris the body object is taken from; "none": the skip path;
\* "KeyError": a lookup outside every try block raised
BodyLookup(p, name, selected, avail, ast) ==
    IF p = "EarthRetrogradeFinder" /\ name = "chiron"
    THEN IF ast = NoEphemeris THEN "none"
         ELSE IF ast \in avail THEN ast ELSE "KeyError"
    ELSE Lookup(p, selected, avail)

\* the ephemerides that can hold the key of the body
HoldersOf(p, name, ast) ==
    IF p = "EarthRetrogradeFinder" /\ name = "chiron"
    THEN IF ast = NoEphemeris THEN {} ELSE {ast}
    ELSE Ephemerides(p)

\* the longitudes of a window: all steps forward, or the first step backward
BodySeries(n) ==
    { Positions(0, [k \in 1..(n - 1) |-> 90], n),
      Positions(0, [k \in 1..(n - 1) |-> IF k = 1 THEN 270 ELSE 90], n) }

InitBodies ==
    /\ prog \in Finders
    /\ longitudes = <<>>
    /\ mode = "bodies"
    /\ split = 0
    /\ pc = "construct"
    /\ diffs = <<>> /\ retrograde = <<>>
    /\ in_retrograde = FALSE /\ start_idx = None
    /\ periods = <<>> /\ chunk_start = LoopStartYear /\ windows = <<>>
    /\ returned = <<>> /\ results = <<>> /\ body = 0
    /\ eph = "none" /\ available = {} /\ log = <<>> /\ num_days = 0
    /\ loadable \in (IF prog = "EarthRetrogradeFinder"
                      THEN SUBSET {asteroid_files_to_try[k] : k \in 1..Len(asteroid_files_to_try)}
                      ELSE {{}})
    /\ asteroid_eph = NoEphemeris
    /\ mercury_retrogrades = <<>> /\ matches = 0 /\ mismatches = 0

bodiesFrame == << prog, mode, longitudes, split, diffs, retrograde, windows,
                 returned, num_days, loadable, mercury_retrogrades, matches,
                 mismatches >>

\* __init__: the asteroid files are tried in order
Construct ==
    /\ mode = "bodies" /\ pc = "construct"
    /\ asteroid_eph' = IF prog = "EarthRetrogradeFinder"
                       THEN FirstLoaded(asteroid_files_to_try, 1, loadable, NoEphemeris)
                       ELSE NoEphemeris
    /\ pc' = "call"
    /\ UNCHANGED << in_retrograde, start_idx, periods, chunk_start, results, body,
                    eph, available, log >>
    /\ UNCHANGED bodiesFrame

\* calculate_all_retrogrades takes the next body and calls find_*_periods
CallFind ==
    /\ mode = "bodies" /\ pc = "call" /\ body < Len(BodyLoop)
    /\ periods' = CallPeriods
    /\ chunk_start' = LoopStartYear
    /\ available' \in {HoldersOf(prog, BodyLoop[body + 1], asteroid_eph), {}}
    /\ log' = <<>>
    /\ pc' = "loop"
    /\ UNCHANGED << in_retrograde, start_idx, results, body, eph, asteroid_eph >>
    /\ UNCHANGED bodiesFrame

BodyChunk(outcome, lons) ==
    [body |-> BodyLoop[body + 1], chunk_start |-> chunk_start,
     outcome |-> outcome, lons |-> lons]

BodySelected == SelectedEphemeris(prog, chunk_start, loop_chunk_end)

BodyUsed == BodyLookup(prog, BodyLoop[body + 1], BodySelected, available, asteroid_eph)

\* an iteration of the chunk loop that completes its try block
BodyChunkScanned ==
    /\ mode = "bodies" /\ pc = "loop" /\ chunk_start < LoopEndYear
    /\ BodyUsed \notin {"none", "KeyError"}
    /\ \E lons \in BodySeries(loop_chunk_end - chunk_start + 1) :
          LET st == WindowScan(prog, lons, Days(chunk_start, loop_chunk_end), periods)
          IN  /\ in_retrograde' = st.in_retrograde
              /\ start_idx' = st.start_idx
              /\ periods' = st.periods
              /\ log' = Append(log, BodyChunk("scanned", lons))
    /\ eph' = BodySelected
    /\ chunk_start' = chunk_start + LoopChunkYears
    /\ UNCHANGED << pc, results, body, available, asteroid_eph >>
    /\ UNCHANGED bodiesFrame

\* an iteration whose try block raises while the positions are computed
BodyChunkRaised ==
    /\ mode = "bodies" /\ pc = "loop" /\ chunk_start < LoopEndYear
    /\ BodyUsed \notin {"none", "KeyError"}
    /\ log' = Append(log, BodyChunk("raised", <<>>))
    /\ eph' = BodySelected
    /\ chunk_start' = chunk_start + LoopChunkYears
    /\ UNCHANGED << pc, in_retrograde, start_idx, periods, results, body,
                    available, asteroid_eph >>
    /\ UNCHANGED bodiesFrame

\* the skip paths: no asteroid ephemeris for chiron, or KeyError in the
\* ephemerides that are tried: continue
BodyChunkSkipped ==
    /\ mode = "bodies" /\ pc = "loop" /\ chunk_start < LoopEndYear
    /\ BodyUsed = "none"
    /\ log' = Append(log, BodyChunk("skipped", <<>>))
    /\ eph' = BodySelected
    /\ chunk_start' = chunk_start + LoopChunkYears
    /\ UNCHANGED << pc, in_retrograde, start_idx, periods, results, body,
                    available, asteroid_eph >>
    /\ UNCHANGED bodiesFrame

\* self.asteroid_eph['earth'] / self.asteroid_eph[observer_key] raises KeyError
\* outside every try block: the exception leaves the generator
BodyChunkKeyError ==
    /\ mode = "bodies" /\ pc = "loop" /\ chunk_start < LoopEndYear
    /\ BodyUsed = "KeyError"
    /\ log' = Append(log, BodyChunk("KeyError", <<>>))
    /\ pc' = "crashed"
    /\ UNCHANGED << in_retrograde, start_idx, periods, chunk_start, results, body,
                    eph, available, asteroid_eph >>
    /\ UNCHANGED bodiesFrame

\* return periods; the caller writes the body's entry
ReturnFind ==
    /\ mode = "bodies" /\ pc = "loop" /\ chunk_start >= LoopEndYear
    /\ results' = Put(results, BodyLoop[body + 1], Entry(prog, periods))
    /\ body' = body + 1
    /\ pc' = "call"
    /\ UNCHANGED << in_retrograde, start_idx, periods, chunk_start, eph,
                    available, log, asteroid_eph >>
    /\ UNCHANGED bodiesFrame

\* return results
ReturnResults ==
    /\ mode = "bodies" /\ pc = "call" /\ body >= Len(BodyLoop)
    /\ pc' = "saved"
    /\ UNCHANGED << in_retrograde, start_idx, periods, chunk_start, results, body,
                    eph, available, log, asteroid_eph >>
    /\ UNCHANGED bodiesFrame

---------------------------------------------------------------------------
(* Specifications *)

NextScan == ClassifySeries \/ ExtractPeriods \/ EndOfSeries \/ FirstWindow \/ SecondWindow
NextNorm == ClassifySeries \/ ExtractPeriods
NextChunks == ProcessChunk \/ ReturnPeriods
NextOutput ==
    ProcessBody \/ ProcessObserver \/ ObserverFails \/ ObserverNotFound \/ SaveOutput
NextEph == SelectEphemeris \/ RangeExhausted
NextSample == BuildTimes
NextLoop == ChunkScanned \/ ChunkSkipped \/ ChunkRaised \/ LoopReturns
NextTally == TestPeriod \/ PrintTally
NextBodies ==
    \/ Construct \/ CallFind \/ BodyChunkScanned \/ BodyChunkRaised
    \/ BodyChunkSkipped \/ BodyChunkKeyError \/ ReturnFind \/ ReturnResults
NextRerun == ClassifySeries \/ ExtractPeriods \/ EndOfSeries \/ RunAgain

SpecScan == InitScan /\ [][NextScan]_vars
SpecNorm == InitNorm /\ [][NextNorm]_vars
SpecChunks == InitChunks /\ [][NextChunks]_vars
SpecRerun == InitRerun /\ [][NextRerun]_vars
SpecOutput == InitOutput /\ [][NextOutput]_vars
SpecEph == InitEph /\ [][NextEph]_vars
SpecSample == InitSample /\ [][NextSample]_vars
SpecLoop == InitLoop /\ [][NextLoop]_vars
SpecTally == InitTally /\ [][NextTally]_vars
SpecBodies == InitBodies /\ [][NextBodies]_vars

Init == InitScan
Next == NextScan
Spec == SpecScan

---------------------------------------------------------------------------
(* Vocabulary of the properties *)

\* the pair of samples i, i+1 (0-based) of the scanned series is retrograde
Flag(i) == At(retrograde, i)

\* s..e-1 is a maximal run of retrograde pairs and pair e is the first
\* non-retrograde pair after it
IsClosedRun(s, e) ==
    /\ 0 <= s /\ s < e /\ e < Len(retrograde)
    /\ \A k \in s..(e - 1) : Flag(k)
    /\ ~Flag(e)
    /\ (s = 0 \/ ~Flag(s - 1))

ClosedRuns ==
    {r \in (0..(Len(retrograde) - 1)) \X (0..(Len(retrograde) - 1)) : IsClosedRun(r[1], r[2])}

Interval(s, e) == [start_jd |-> At(AllTimes, s), end_jd |-> At(AllTimes, e)]

\* first sample of the run that is still open after the last pair
OpenRunStart ==
    CHOOSE s \in 0..(Len(retrograde) - 1) :
        /\ \A k \in s..(Len(retrograde) - 1) : Flag(k)
        /\ (s = 0 \/ ~Flag(s - 1))

RunOpenAtEnd == Len(retrograde) > 0 /\ Flag(Len(retrograde) - 1)

\* the chunk loop: the step from day d to day d+1 of the whole range is retrograde
DayRetro(d) == Classify(prog, longitudes)[d]

\* first day of the run of retrograde steps that reaches day d
RunStartDay(d) ==
    CHOOSE s \in 1..(d - 1) :
        /\ \A k \in s..(d - 1) : DayRetro(k)
        /\ (s = 1 \/ ~DayRetro(s - 1))

\* the day the run that is open at day d ends: the first day from d on whose
\* step is prograde, or the last day of the range
RunEndDay(d) ==
    IF \E e \in d..(TotalDays - 1) : ~DayRetro(e)
    THEN CHOOSE e \in d..(TotalDays - 1) :
            ~DayRetro(e) /\ \A k \in d..(e - 1) : DayRetro(k)
    ELSE TotalDays

\* the run is still open when the samples of window w end
OpenAtWindowEnd(w) == w.last > w.first /\ DayRetro(w.last - 1)

---------------------------------------------------------------------------
(* C1 - carry-forward at chunk boundaries: when the chunk loop has returned,
   every retrograde run that was still open at the end of some window has
   been emitted exactly once, with its original start day, and ends at the
   first prograde step after it (or at the last day of the range). *)
C1_CarryForward ==
    pc = "done" /\ mode = "chunks" =>
        \A k \in 1..Len(windows) :
            OpenAtWindowEnd(windows[k]) =>
                LET s == RunStartDay(windows[k].last)
                    e == RunEndDay(windows[k].last)
                IN  /\ Cardinality({j \in 1..Len(periods) : periods[j].start_jd = s}) = 1
                    /\ \E j \in 1..Len(periods) :
                          periods[j] = [start_jd |-> s, end_jd |-> e]

(* C2 - seam equivalence: scanning the first window and then the second,
   accumulating into one periods list, gives the interval list of one pass
   over the whole series. *)
C2_SeamEquivalence ==
    pc = "done" /\ mode = "split" =>
        periods = WindowScan(prog, longitudes, AllTimes, <<>>).periods

(* C3 - no double counting: in the list returned by the chunk loop any two
   distinct entries are disjoint in time. *)
C3_NoDoubleCounting ==
    pc = "done" /\ mode = "chunks" =>
        \A i, j \in 1..Len(periods) :
            i # j => \/ periods[i].end_jd <= periods[j].start_jd
                     \/ periods[j].end_jd <= periods[i].start_jd

(* C4 - window layout: every window runs from 1 January of its chunk_start
   to 31 December of its chunk_end, and starts after the last sample of the
   window before it. *)
C4_WindowsDisjoint ==
    mode = "chunks" =>
        /\ \A k \in 1..Len(windows) :
              LET cs == START_YEAR + (k - 1) * chunk_years
              IN  windows[k] = [first |-> JanFirst(cs),
                                last  |-> DecLast(Min(cs + chunk_years, END_YEAR))]
        /\ \A k \in 1..(Len(windows) - 1) : windows[k + 1].first > windows[k].last

(* C5 - run detection in a single scan: after the loop every emitted interval
   is (timestamp[s], timestamp[e]) of a maximal retrograde run s..e-1 closed by
   the non-retrograde pair e, each such run is emitted exactly once, in order,
   and the documented example gives exactly (timestamp[1], timestamp[4]). *)
C5_RunDetection ==
    pc = "scanned" =>
        /\ \A j \in 1..Len(periods) :
              \E r \in ClosedRuns : periods[j] = Interval(r[1], r[2])
        /\ \A r \in ClosedRuns :
              Cardinality({j \in 1..Len(periods) : periods[j] = Interval(r[1], r[2])}) = 1
        /\ Len(periods) = Cardinality(ClosedRuns)
        /\ (longitudes = RunExample => periods = <<Interval(1, 4)>>)

C5_Witness ==
    pc = "scanned" /\ longitudes = RunExample /\ periods = <<Interval(1, 4)>>

(* C6 - wraparound normalization: the delta of two longitudes a, b in [0, 360)
   is b - a, less 360 when above 180, plus 360 when below -180; it lies in
   [-180, 180], is congruent to b - a modulo 360, a forward step of less than
   half a circle is never retrograde, and [350, 355, 2, 8] gives the deltas
   [5, 7, 6] and no interval. *)
C6_Wraparound ==
    /\ (pc # "start" /\ Len(longitudes) = 2 =>
          LET a == longitudes[1]
              b == longitudes[2]
              d == diffs[1]
          IN  /\ d = (IF b - a > 180 THEN b - a - 360
                      ELSE IF b - a < -180 THEN b - a + 360 ELSE b - a)
              /\ -180 <= d /\ d <= 180
              /\ (d - (b - a)) % 360 = 0
              /\ ((b - a) % 360 \in 1..179 => ~retrograde[1]))
    /\ (pc # "start" /\ longitudes = WrapExample => diffs = <<5, 7, 6>>)
    /\ (pc = "scanned" /\ longitudes = WrapExample => periods = <<>>)

C6_Witness ==
    \/ pc = "scanned" /\ longitudes = WrapExample /\ diffs = <<5, 7, 6>> /\ periods = <<>>
    \/ pc = "scanned" /\ longitudes = <<355, 2>> /\ diffs = <<7>> /\ ~retrograde[1]

(* C7 - open run at series end, single pass: when generate_test_data is done
   and the last pair was retrograde, the last entry of periods is the run that
   was open, from its first sample to the last sample of the series, it is the
   only entry added to the closed runs, and [10, 8, 6] gives exactly
   (timestamp[0], timestamp[2]). *)
C7_OpenRunClosed ==
    pc = "done" /\ prog = "generate_test_data" =>
        /\ (RunOpenAtEnd =>
              /\ Len(periods) = Cardinality(ClosedRuns) + 1
              /\ periods[Len(periods)] = Interval(OpenRunStart, Len(longitudes) - 1))
        /\ (longitudes = OpenRunExample => periods = <<Interval(0, 2)>>)

C7_Witness ==
    /\ pc = "done" /\ prog = "generate_test_data"
    /\ longitudes = OpenRunExample /\ periods = <<Interval(0, 2)>>

(* C8 - strict classification: a pair is retrograde iff its normalized delta
   is below 0; a series of constant longitudes, and a series with no
   retrograde pair, emits no interval in any scan. *)
C8_StrictClassification ==
    /\ \A i \in 1..Len(retrograde) : retrograde[i] <=> diffs[i] < 0
    /\ (\A i \in 1..(Len(longitudes) - 1) :
            Wraparound(longitudes[i + 1] - longitudes[i]) >= 0) => periods = <<>>
    /\ (\A i \in 1..(Len(longitudes) - 1) : longitudes[i + 1] = longitudes[i])
          => periods = <<>>

C8_Witness ==
    /\ pc = "done" /\ prog = "generate_test_data"
    /\ longitudes = ConstantExample /\ diffs = <<0, 0>>
    /\ retrograde = <<FALSE, FALSE>> /\ periods = <<>>

(* C9 - interval invariant: every interval emitted by any scan, the interval
   closed at the last sample included, starts before it ends. *)
C9_StartBeforeEnd ==
    \A j \in 1..Len(periods) : periods[j].start_jd < periods[j].end_jd

C9_Witness ==
    /\ pc = "done" /\ prog = "generate_test_data"
    /\ in_retrograde /\ Len(periods) = 2

(* C10 - output ordering: the list returned by the chunk loop is in
   non-decreasing start_jd order. *)
C10_OrderedByStart ==
    pc = "done" /\ mode = "chunks" =>
        \A j \in 1..(Len(periods) - 1) : periods[j].start_jd <= periods[j + 1].start_jd

---------------------------------------------------------------------------
\* C13: a series of 0 or 1 samples has no deltas, so every scan, the one of
\* generate_test_data with its closing step included, and a finder's window
\* of 0 or 1 samples, returns an empty interval list.
C13_ShortSeries ==
    /\ (mode = "single" /\ pc \in {"classified", "scanned", "done"}
            /\ Len(longitudes) <= 1)
        => (diffs = <<>> /\ retrograde = <<>> /\ periods = <<>>)
    /\ (mode = "split" /\ pc = "seam" /\ split <= 1)
        => (retrograde = <<>> /\ periods = <<>>)

C13_Witness ==
    /\ prog = "generate_test_data" /\ pc = "done"
    /\ Len(longitudes) = 1 /\ longitudes[1] = 270
    /\ periods = <<>>

(* C17 - equivalence of the duplicated scans: on one series the scan of every
   program returns the intervals the scan of RetrogradeFinder returns, in the
   same order; only generate_test_data adds one more, the interval that
   closes a run still open after the last pair at the last sample. *)
C17_Closing ==
    IF prog = "generate_test_data" /\ RunOpenAtEnd
    THEN <<Interval(OpenRunStart, Len(longitudes) - 1)>>
    ELSE <<>>

C17_ScanEquivalence ==
    (mode = "single" /\ pc = "done") =>
        /\ periods = ScanOf("RetrogradeFinder", longitudes) \o C17_Closing
        /\ \A q \in Progs \ {"generate_test_data"} :
              ScanOf(q, longitudes) = ScanOf("RetrogradeFinder", longitudes)

\* the mercury test has scanned a series whose first pair starts a closed run
C17_Witness ==
    /\ mode = "single" /\ pc = "done" /\ prog = MercuryTest
    /\ Len(retrograde) >= 3 /\ Flag(0) /\ ~Flag(1) /\ Flag(2)
    /\ periods = <<Interval(0, 1)>>

(* C14 - determinism: whatever was run before, a run returns the scan of the
   series it was given and of nothing else, so two runs on the same series
   in one process return identical lists; a run leaves the series it read as
   it was. *)
C14_Deterministic ==
    /\ \A i \in DOMAIN returned :
          returned[i].periods = ScanOf(prog, returned[i].longitudes)
    /\ \A i, j \in DOMAIN returned :
          returned[i].longitudes = returned[j].longitudes
              => returned[i].periods = returned[j].periods
    /\ (pc = "done" => returned[Len(returned)].longitudes = longitudes)

\* a second run on the same series, after a first one that found an interval
\* and ended inside a run
C14_Witness ==
    /\ Len(returned) = 2
    /\ returned[1].longitudes = returned[2].longitudes
    /\ returned[1].periods # <<>>
    /\ in_retrograde

---------------------------------------------------------------------------
(* Vocabulary of the output properties *)

\* the fraction q is the number n / d
IsValue(q, n, d) == q.den # 0 /\ d # 0 /\ q.num * d = n * q.den

YearRange == EndYearOf(prog) - StartYearOf(prog)

(* C11 - average-per-year with no intervals: in the output of every generator,
   the error path of generate_test_data included, a body whose periods list is
   empty has count 0 and average_per_year 0, and no entry's average is the
   result of a division by zero. *)
C11_AverageOfNoIntervals ==
    \A n \in DOMAIN results :
        /\ results[n].average_per_year.den # 0
        /\ results[n].periods = <<>> =>
              /\ results[n].count = 0
              /\ IsValue(results[n].average_per_year, 0, 1)

\* generate_test_data has written an entry without intervals for the first
\* body on its normal path and one for the last body on its error path
C11_Witness ==
    /\ prog = "generate_test_data" /\ pc = "saved"
    /\ DOMAIN results = {BodyLoop[k] : k \in 1..Len(BodyLoop)}
    /\ \A n \in DOMAIN results : results[n].periods = <<>>
    /\ Len(longitudes) > 1

(* C12 - average-per-year formula as stated: average_per_year is
   count / (END_YEAR - START_YEAR) when the range is nonzero and intervals
   exist, and 0 when the range is zero. *)
C12_AverageFormula ==
    \A n \in DOMAIN results :
        /\ (YearRange # 0 /\ results[n].periods # <<>>)
              => IsValue(results[n].average_per_year, results[n].count, YearRange)
        /\ YearRange = 0 => IsValue(results[n].average_per_year, 0, 1)

(* C12 as the code has it: in the two calculate_all_retrogrades
   average_per_year is count / (END_YEAR - START_YEAR) when intervals exist;
   in generate_test_data, whose year range is zero, it is count itself, the
   single year 2024 counting as one year; it is 0 only where the entry has no
   intervals. *)
C12_AverageAsCoded ==
    \A n \in DOMAIN results :
        /\ results[n].count = Len(results[n].periods)
        /\ (prog \in Finders /\ results[n].periods # <<>>)
              => /\ YearRange # 0
                 /\ IsValue(results[n].average_per_year, results[n].count, YearRange)
        /\ prog = "generate_test_data"
              => /\ YearRange = 0
                 /\ IsValue(results[n].average_per_year, results[n].count, 1)
        /\ results[n].periods = <<>> => IsValue(results[n].average_per_year, 0, 1)

\* generate_test_data has written an entry with one interval and average 1
C12_Witness ==
    /\ prog = "generate_test_data"
    /\ \E n \in DOMAIN results :
          /\ results[n].count = 1
          /\ results[n].average_per_year = IntValue(1)

---------------------------------------------------------------------------
(* C15 - ephemeris selection: for every chunk of RetrogradeFinder, DE440 is
   selected exactly when every year of the chunk's window, chunk_start
   through chunk_end, lies in [DE440_START, DE440_END], so no sample dated
   outside 1550-2650 is computed with DE440. *)
C15_EphemerisSelection ==
    \A k \in DOMAIN log :
        log[k].eph = "de440"
            <=> \A y \in log[k].chunk_start..log[k].chunk_end :
                    DE440_START <= y /\ y <= DE440_END

(* C18 - daily resolution: the times array of a chunk has as many samples as
   the window spans days, and consecutive samples are exactly one day apart,
   in both finders. *)
C18_DailyResolution ==
    (mode = "sample" /\ pc = "sampled") =>
        /\ num_days = SpanOf(windows[1])
        /\ IsValue(LinspaceStep(SpanOf(windows[1]), num_days), 1, 1)

---------------------------------------------------------------------------
(* Vocabulary of the chunk-loop properties *)

IsPrefix(a, b) == Len(a) <= Len(b) /\ SubSeq(b, 1, Len(a)) = a

\* the k-th value of range(LoopStartYear, LoopEndYear, LoopChunkYears)
RangeValue(k) == LoopStartYear + (k - 1) * LoopChunkYears

\* every chunk of the range is visited, in order, before the function returns
VisitsEveryChunk ==
    /\ \A k \in DOMAIN log : log[k].chunk_start = RangeValue(k)
    /\ Len(log) <= LoopChunks
    /\ (pc = "done" => Len(log) = LoopChunks)
    /\ (pc = "loop" => ENABLED NextLoop)

(* C16 - accumulate-only lifecycle: in every step of the chunk loop, the skip
   and the exception step included, the old periods list is a prefix of the
   new one, so an appended interval is never removed, moved or changed; the
   list in the body's output entry is the list the loop ended with. *)
C16_AccumulateOnly ==
    /\ [][IsPrefix(periods, periods')]_vars
    /\ [](pc = "done" => results[BodyLoop[1]].periods = periods)

\* a chunk that raised after appending, then a chunk that appended again
C16_Witness ==
    /\ mode = "loop" /\ pc = "done" /\ Len(log) = 2
    /\ log[1].outcome = "raised" /\ Len(log[1].after) = 1
    /\ log[2].outcome = "scanned" /\ Len(periods) = 2

(* C19 - missing-body fallback of RetrogradeFinder: the body is taken from the
   selected ephemeris when that holds its key, from the other one when only
   that holds it, and when neither does the chunk is skipped with periods
   unchanged; the loop visits every chunk and returns. *)
C19_MissingBodyFallback ==
    (mode = "loop" /\ prog = "RetrogradeFinder") =>
        /\ \A k \in DOMAIN log :
              LET e == log[k]
              IN  /\ e.eph = get_ephemeris(mid_year(e.chunk_start,
                                   Min(e.chunk_start + LoopChunkYears, LoopEndYear)))
                  /\ e.eph \in available
                        => (e.used = e.eph /\ e.outcome # "skipped")
                  /\ (e.eph \notin available /\ other_eph(e.eph) \in available)
                        => (e.used = other_eph(e.eph) /\ e.outcome # "skipped")
                  /\ available = {}
                        => (e.outcome = "skipped" /\ e.after = e.before)
                  /\ e.outcome = "skipped" => (available = {} /\ e.after = e.before)
        /\ VisitsEveryChunk

\* only DE441 holds the key: the chunk for which DE440 is selected is scanned
\* with the body of DE441
C19_Witness ==
    /\ mode = "loop" /\ prog = "RetrogradeFinder" /\ pc = "done"
    /\ available = {"de441"}
    /\ \E k \in DOMAIN log :
          /\ log[k].eph = "de440" /\ log[k].used = "de441"
          /\ log[k].outcome = "scanned" /\ log[k].after # log[k].before

(* C20 - per-chunk failure isolation: a chunk whose try block raised leaves
   every interval of the earlier chunks in periods, the next chunk starts from
   that list, every chunk of the range is still processed and the function
   returns a list. *)
C20_FailureIsolation ==
    mode = "loop" =>
        /\ \A k \in DOMAIN log :
              /\ log[k].outcome = "raised"
                    => (IsPrefix(log[k].before, log[k].after)
                        /\ IsPrefix(log[k].before, periods))
              /\ k > 1 => log[k].before = log[k - 1].after
        /\ (pc = "done" => BodyLoop[1] \in DOMAIN results)
        /\ VisitsEveryChunk

\* the first chunk appended an interval, the second chunk raised
C20_Witness ==
    /\ mode = "loop" /\ pc = "done" /\ Len(log) = 2
    /\ log[1].after # <<>>
    /\ log[2].outcome = "raised" /\ log[2].before = log[1].after
    /\ IsPrefix(log[1].after, results[BodyLoop[1]].periods)

---------------------------------------------------------------------------
\* the keys of the bodies the generator's loop has taken
ConfiguredBodies == {BodyLoop[k] : k \in 1..Len(BodyLoop)}

(* C21 - output entry invariant: when a generator has finished,
   results['planets'] has an entry for exactly the configured body keys,
   bodies that were missing or failed included, and in every entry count is
   the length of its periods list. *)
C21_OneEntryPerBody ==
    (mode = "output" /\ pc = "saved") =>
        /\ DOMAIN results = ConfiguredBodies
        /\ \A n \in DOMAIN results : results[n].count = Len(results[n].periods)

(* C22 - failure path of generate_test_data: an observer whose processing
   raised an exception has the entry periods = [], count = 0,
   average_per_year = 0, the entries written for earlier observers are
   unchanged, and the remaining observers are still processed. *)
C22_FailurePath ==
    (mode = "output" /\ prog = "generate_test_data") =>
        /\ \A k \in DOMAIN log :
              log[k].outcome \in {"raised", "not_found"} =>
                  /\ log[k].body \in DOMAIN log[k].after
                  /\ log[k].after[log[k].body] = ErrorEntry
                  /\ \A n \in DOMAIN log[k].before \ {log[k].body} :
                        n \in DOMAIN log[k].after /\ log[k].after[n] = log[k].before[n]
        /\ \A k \in DOMAIN log : log[k].body = BodyLoop[k]
        /\ (pc = "saved" => Len(log) = Len(BodyLoop))

---------------------------------------------------------------------------
(* C24 - validation tally: every tested row, of the first min(10, N), is
   counted exactly once, as a match iff some extracted interval has both the
   start and the end date of the row and as a mismatch otherwise, so matches +
   mismatches is the number of rows tested; a close match met before the exact
   one does not keep the exact one from being counted. *)
C24_ValidationTally ==
    mode = "tally" =>
        /\ matches + mismatches = body
        /\ body <= Min(TestedLimit, Len(mercury_retrogrades))
        /\ (pc = "done" => body = Min(TestedLimit, Len(mercury_retrogrades)))
        /\ \A k \in DOMAIN log :
              IF log[k].exact
              THEN matches = log[k].matches + 1 /\ mismatches = log[k].mismatches
              ELSE matches = log[k].matches /\ mismatches = log[k].mismatches + 1

\* the tenth of more than ten rows: a row whose list holds a close match
\* before the exact one was counted as a match
C24_Witness ==
    /\ mode = "tally" /\ Len(mercury_retrogrades) > TestedLimit
    /\ body = TestedLimit
    /\ log # <<>> /\ log[1].close_first /\ log[1].exact
    /\ matches = log[1].matches + 1

---------------------------------------------------------------------------
(* Vocabulary of the properties of a whole run *)

RECURSIVE Replay(_, _, _)
\* the periods of the windows scanned for body name in the call that is
\* running or has just returned, from the k-th chunk of its history on
Replay(name, k, ps) ==
    IF k > Len(log) THEN ps
    ELSE IF log[k].body = name /\ log[k].outcome = "scanned"
         THEN Replay(name, k + 1,
                     WindowScan(prog, log[k].lons,
                                Days(log[k].chunk_start,
                                     log[k].chunk_start + Len(log[k].lons) - 1),
                                ps).periods)
         ELSE Replay(name, k + 1, ps)

(* C23 - body independence: during a call the list holds the periods of the
   windows scanned in this call and nothing else, so every call starts from
   an empty list; the entry written on return is computed from that list,
   and no step changes the entry of another body. *)
C23_BodyIndependence ==
    /\ [](mode = "bodies" /\ pc = "loop" =>
              periods = Replay(BodyLoop[body + 1], 1, <<>>))
    /\ [][mode = "bodies" =>
              /\ \A n \in DOMAIN results :
                    n \in DOMAIN results' /\ results'[n] = results[n]
              /\ \A n \in DOMAIN results' \ DOMAIN results :
                    /\ n = BodyLoop[body + 1]
                    /\ results'[n] = Entry(prog, Replay(n, 1, <<>>))]_vars

\* the first body has an interval, the second body has none although its
\* windows were scanned
C23_Witness ==
    /\ mode = "bodies" /\ pc = "saved"
    /\ results[BodyLoop[1]].count > 0
    /\ results[BodyLoop[2]].count = 0
    /\ \E k \in DOMAIN log : log[k].body = BodyLoop[2] /\ log[k].outcome = "scanned"

\* the files of asteroid_files_to_try listed before file f
ListedBefore(f) ==
    { asteroid_files_to_try[j] : j \in
        { i \in 1..Len(asteroid_files_to_try) :
            \E k \in 1..Len(asteroid_files_to_try) :
                asteroid_files_to_try[k] = f /\ i < k } }

ChironChunks == { k \in DOMAIN log : log[k].body = "chiron" }

(* C25 - chiron and the asteroid ephemeris: the constructor of
   EarthRetrogradeFinder keeps the first listed asteroid file that loads and
   leaves asteroid_eph unset exactly when none loads; while it is unset every
   chunk of observer chiron is skipped and nothing is raised, chiron's entry
   has no periods, count 0 and average_per_year 0, and the ephemeris used for
   any other observer does not depend on asteroid_eph. *)
C25_ChironWithoutAsteroids ==
    (mode = "bodies" /\ prog = "EarthRetrogradeFinder" /\ pc # "construct") =>
        /\ asteroid_eph = NoEphemeris <=> loadable = {}
        /\ asteroid_eph # NoEphemeris =>
              /\ asteroid_eph \in loadable
              /\ ListedBefore(asteroid_eph) \cap loadable = {}
        /\ asteroid_eph = NoEphemeris =>
              /\ pc # "crashed"
              /\ \A k \in ChironChunks : log[k].outcome = "skipped"
              /\ "chiron" \in DOMAIN results =>
                    /\ results["chiron"].periods = <<>>
                    /\ results["chiron"].count = 0
                    /\ IsValue(results["chiron"].average_per_year, 0, 1)
              /\ pc = "saved" =>
                    DOMAIN results = {BodyLoop[k] : k \in 1..Len(BodyLoop)}
        /\ (pc = "loop" /\ BodyLoop[body + 1] # "chiron") =>
              \A ast \in loadable \cup {NoEphemeris} :
                  BodyLookup(prog, BodyLoop[body + 1], BodySelected, available, ast)
                      = BodyUsed

\* no asteroid file loaded, the run is complete: chiron's chunks were all
\* skipped and the first observer has an interval
C25_Witness ==
    /\ mode = "bodies" /\ prog = "EarthRetrogradeFinder" /\ pc = "saved"
    /\ asteroid_eph = NoEphemeris
    /\ Cardinality(ChironChunks) = LoopChunks
    /\ results["chiron"].count = 0
    /\ results[BodyLoop[1]].count > 0

\* the constructor kept the second listed file although the third loads too
C25_FirstFileWitness ==
    /\ mode = "bodies" /\ prog = "EarthRetrogradeFinder" /\ pc = "saved"
    /\ asteroid_eph = asteroid_files_to_try[2]
    /\ asteroid_files_to_try[3] \in loadable

====
